---- MODULE Spec2Model ----
(***************************************************************************)
(* Aetheris OS backend (src/backend/main.py): the decaying demo-heat       *)
(* store, the thermal derivation, the state interpretation and the two     *)
(* evaluation handlers (status, adapt).                                    *)
(*                                                                         *)
(* Numbers.  The code computes in floats; the model computes in exact      *)
(* fixed point.  Watts are counted in units of 1/WattUnit W, temperatures  *)
(* in units of 1/TempUnit degC, capacity in units of 1/CapUnit percent.    *)
(* The units are chosen so that every division the code performs on the    *)
(* inputs enumerated below is exact.  Time is counted in whole seconds.    *)
(*                                                                         *)
(* Scheduling.  Every endpoint is an `async def` run on one asyncio event  *)
(* loop: the code between two `await`s is one atomic step, and requests    *)
(* interleave only at an `await`.                                          *)
(***************************************************************************)
EXTENDS Integers, Sequences, FiniteSets, Bags, TLC

\* ------------------------------------------------------------- bounds
MaxTime == 3
MaxBack == 1
NReq == 2

\* ------------------------------------------------------------- units
WattUnit == 9 * 10
TempUnit == 25 * WattUnit
CapUnit == 5 * 99

Max(a, b) == IF a >= b THEN a ELSE b
Min(a, b) == IF a <= b THEN a ELSE b

\* ------------------------------------------------------------- inputs
\* DemoHeatRequest.watts (W) and DemoHeatRequest.seconds, as a client may send them.
InjectWatts == {-5, 4, 80}
InjectSeconds == {-3, 0, 45}
\* What the collaborators answer one status request: the psutil.cpu_percent reading
\* (percent) and the first forecast block's cloud cover (percent; -1 stands for an
\* empty forecast list).
Signals == {[cpu |-> 0, clouds |-> -1], [cpu |-> 60, clouds |-> 40]}
\* LivingMachineState bodies a client may post to /system/adapt: foundation_temp_celsius
\* (degC) and is_saturated; the other fields keep the values given here.
AdaptTemps == {21, 23, 24}

None == [op |-> "none"]

VARIABLES
    DEMO_HEAT_WATTS,            \* injected heat, in units of 1/WattUnit W
    DEMO_HEAT_DECAY_PER_SEC,    \* decay rate, in units of 1/WattUnit W per second
    LAST_DEMO_TS,               \* the time decay was last applied
    now,                        \* the wall clock, datetime.now(timezone.utc)
    inflight,                   \* the bag of suspended handlers: the await each is at, its locals
    ev,                         \* what the last step did, as a caller or an observer sees it
    inj,                        \* history: the most recently completed inject
    hist,                       \* history: the last read and the resets since that inject
    backs,                      \* history: how often the clock was set back
    cin,                        \* input of the pure-function specification
    cout,                       \* output of the pure-function specification
    materials_collection,       \* material id -> "absent", or its document's vector_stored
    vectors,                    \* the ids whose UpsertVector call has returned
    upserts,                    \* material id -> where the upsert call that drew it stands
    searches                    \* the number of search requests awaiting find

mat == <<materials_collection, vectors, upserts, searches>>
vars == <<DEMO_HEAT_WATTS, DEMO_HEAT_DECAY_PER_SEC, LAST_DEMO_TS, now, inflight, ev,
          inj, hist, backs, cin, cout, mat>>
store == <<DEMO_HEAT_WATTS, DEMO_HEAT_DECAY_PER_SEC, LAST_DEMO_TS>>

\* ------------------------------------------------------------- decay store
\* DEMO_HEAT_DECAY_PER_SEC = 2.0 at import.
InitialRate == 2 * WattUnit

\* max(0.0, float(req.watts))
NewWatts(reqWatts) == Max(0, reqWatts * WattUnit)

MinWindow == 10
\* the 0.5 of max(0.5, ...)
RateFloor == WattUnit \div 2

\* (mutant) the rate without its floor of 0.5
NewRate_NoFloor(w, seconds) == w \div Max(MinWindow, seconds)

\* max(0.5, DEMO_HEAT_WATTS / max(10, int(req.seconds)))
NewRate(w, seconds) == Max(RateFloor, w \div Max(MinWindow, seconds))

\* (mutant) decay that may take the value below zero
DecayedWatts_Unfloored(w, rate, lastTs, nowTs) ==
    LET dt == nowTs - lastTs
    IN  IF dt <= 0 THEN w ELSE w - rate * dt

\* (mutant) decay without the `if dt <= 0: return` guard
DecayedWatts_Unguarded(w, rate, lastTs, nowTs) == Max(0, w - rate * (nowTs - lastTs))

\* _apply_demo_decay: the new DEMO_HEAT_WATTS.  LAST_DEMO_TS = now in every case.
DecayedWatts(w, rate, lastTs, nowTs) ==
    LET dt == nowTs - lastTs
    IN  IF dt <= 0 THEN w ELSE Max(0, w - rate * dt)

\* (mutant) a reset that leaves the value
ResetWatts_Keeps(w) == w

\* demo_reset: DEMO_HEAT_WATTS = 0.0
ResetWatts(w) == 0

\* ------------------------------------------------------------- derivation
\* psutil.cpu_percent(interval=1) blocks the event loop for one second.
CpuInterval == 1

\* (mutant) the heat without `+ DEMO_HEAT_WATTS`
ServerHeat_LoadOnly(cpu, w) == (cpu * 65 * WattUnit) \div 100

\* base_heat = (cpu_percent / 100) * 65.0; estimated_heat_watts = base_heat + DEMO_HEAT_WATTS
ServerHeat(cpu, w) == (cpu * 65 * WattUnit) \div 100 + w

\* 18.5, 22.0 and 24.0 degC
BaseTemp == (37 * TempUnit) \div 2
RampTemp == 22 * TempUnit
SatTemp == 24 * TempUnit

\* foundation_temp = 18.5 + server_heat_output_watts * 0.08
FoundationTemp(heat) == BaseTemp + (8 * heat * TempUnit) \div (100 * WattUnit)

\* (mutant) the capacity without `min(100.0, ...)`
ThermalCapacity_NoCeiling(temp) ==
    LET raw == ((temp - BaseTemp) * 100 * CapUnit) \div (SatTemp - BaseTemp)
    IN  Max(0, raw)

\* thermal_capacity = ((foundation_temp - 18.5) / (24.0 - 18.5)) * 100, then clamped to [0, 100]
ThermalCapacity(temp) ==
    LET raw == ((temp - BaseTemp) * 100 * CapUnit) \div (SatTemp - BaseTemp)
    IN  Max(0, Min(100 * CapUnit, raw))

\* (mutant) the ramp without `if temp_c <= 22.0: return 0`
SmartGlassOpacity_NoLowClamp(temp) ==
    IF temp >= SatTemp THEN 100
    ELSE ((temp - RampTemp) * 100) \div (SatTemp - RampTemp)

\* _smart_glass_opacity: int() truncates, and the ramp value is positive
SmartGlassOpacity(temp) ==
    IF temp >= SatTemp THEN 100
    ELSE IF temp <= RampTemp THEN 0
    ELSE ((temp - RampTemp) * 100) \div (SatTemp - RampTemp)

\* solar_gain = 1000.0 * (1.0 - clouds / 100.0) when there is a forecast, else 0.0
SolarGain(clouds) == IF clouds < 0 THEN 0 ELSE (1000 * (100 - clouds)) \div 100

\* is_saturated=foundation_temp >= 24.0
IsSaturated(temp) == temp >= SatTemp

\* The LivingMachineState the status handler builds (the fields that vary).
DeriveState(cpu, w, clouds) ==
    LET heat == ServerHeat(cpu, w)
        temp == FoundationTemp(heat)
    IN  [foundation_temp_celsius |-> temp,
         thermal_capacity_used |-> ThermalCapacity(temp),
         is_saturated |-> IsSaturated(temp),
         server_heat_output_watts |-> heat,
         smart_glass_opacity |-> SmartGlassOpacity(temp),
         solar_gain_watts |-> SolarGain(clouds),
         has_outside_temp |-> clouds >= 0]

\* ------------------------------------------------------------- interpretation
\* (mutant) the low-heat rule tried before the saturation rule
InterpretState_HeatFirst(state) ==
    IF state.server_heat_output_watts < 30 * WattUnit THEN "NOMINAL_PASSIVE"
    ELSE IF state.is_saturated THEN "CRITICAL"
    ELSE IF state.thermal_capacity_used > 75 * CapUnit THEN "WARNING"
    ELSE "ACTIVE"

\* interpret_state: the class its returned text opens with.
InterpretState(state) ==
    IF state.is_saturated THEN "CRITICAL"
    ELSE IF state.thermal_capacity_used > 75 * CapUnit THEN "WARNING"
    ELSE IF state.server_heat_output_watts < 30 * WattUnit THEN "NOMINAL_PASSIVE"
    ELSE "ACTIVE"

\* ------------------------------------------------------------- state
NoHist == [reset |-> "no", prev |-> -1]
NoState == [op |-> "none"]

\* Every upsert call draws a fresh uuid4: call i is the one that draws id i.
NMat == 2
MatIds == 1 .. NMat

\* No document, no vector, no request.
NoMaterials ==
    /\ materials_collection = [i \in MatIds |-> "absent"]
    /\ vectors = {}
    /\ upserts = [i \in MatIds |-> "idle"]
    /\ searches = 0

Init ==
    /\ DEMO_HEAT_WATTS = 0
    /\ DEMO_HEAT_DECAY_PER_SEC = InitialRate
    /\ LAST_DEMO_TS = 0
    /\ now = 0
    /\ inflight = EmptyBag
    /\ ev = None
    /\ inj = None
    /\ hist = NoHist
    /\ backs = 0
    /\ NoMaterials
    /\ cin = None
    /\ cout = "none"

\* A handler suspended at an await: where, and the locals it resumes with.
Suspended(at, state, action) == [at |-> at, state |-> state, action |-> action]
AtWeather == Suspended("weather", NoState, "")
Add(bag, req) == bag (+) SetToBag({req})
Remove(bag, req) == bag (-) SetToBag({req})

\* ------------------------------------------------------------- the clock
\* Wall-clock time passes.
Tick ==
    /\ now < MaxTime
    /\ now' = now + 1
    /\ ev' = None
    /\ UNCHANGED <<store, inflight, inj, hist, backs, cin, cout, mat>>

\* Wall-clock time passes, d seconds at once, up to the horizon.
Wait(horizon, d) ==
    /\ now + d <= horizon
    /\ now' = now + d
    /\ ev' = None
    /\ UNCHANGED <<store, inflight, inj, hist, backs, cin, cout, mat>>

\* The wall clock is set back (datetime.now is not monotonic).
ClockBack ==
    /\ backs < MaxBack
    /\ backs' = backs + 1
    /\ \E t \in 0 .. now - 1 : now' = t
    /\ ev' = None
    /\ UNCHANGED <<store, inflight, inj, hist, cin, cout, mat>>

\* ------------------------------------------------------------- demo endpoints
\* (mutant) the two assignments in the other order: the rate from the old watts
demo_heat_RateFirst(watts, seconds) ==
    LET w == NewWatts(watts)
        rate == NewRate(DEMO_HEAT_WATTS, seconds)
    IN  /\ DEMO_HEAT_WATTS' = w
        /\ DEMO_HEAT_DECAY_PER_SEC' = rate
        /\ ev' = [op |-> "inject", watts |-> watts, seconds |-> seconds,
                  demo_heat_watts |-> w, decay_watts_per_sec |-> rate]
        /\ inj' = [op |-> "inject", watts |-> watts, seconds |-> seconds, t |-> now]
        /\ hist' = NoHist
        /\ UNCHANGED <<LAST_DEMO_TS, now, inflight, backs, cin, cout, mat>>

\* POST /demo/heat: no await in the body, one atomic step.
demo_heat(watts, seconds) ==
    LET w == NewWatts(watts)
        rate == NewRate(w, seconds)
    IN  /\ DEMO_HEAT_WATTS' = w
        /\ DEMO_HEAT_DECAY_PER_SEC' = rate
        /\ ev' = [op |-> "inject", watts |-> watts, seconds |-> seconds,
                  demo_heat_watts |-> w, decay_watts_per_sec |-> rate]
        /\ inj' = [op |-> "inject", watts |-> watts, seconds |-> seconds, t |-> now]
        /\ hist' = NoHist
        /\ UNCHANGED <<LAST_DEMO_TS, now, inflight, backs, cin, cout, mat>>

\* (mutant) a reset that also puts the rate back to its initial value
demo_reset_ResetsRate ==
    /\ DEMO_HEAT_WATTS' = ResetWatts(DEMO_HEAT_WATTS)
    /\ DEMO_HEAT_DECAY_PER_SEC' = InitialRate
    /\ ev' = [op |-> "reset", demo_heat_watts |-> DEMO_HEAT_WATTS']
    /\ hist' = [hist EXCEPT !.reset = IF DEMO_HEAT_WATTS > 0 \/ hist.reset = "pos"
                                      THEN "pos" ELSE "zero"]
    /\ UNCHANGED <<LAST_DEMO_TS, now, inflight, inj, backs, cin, cout, mat>>

\* POST /demo/reset: no await in the body, one atomic step.
demo_reset ==
    /\ DEMO_HEAT_WATTS' = ResetWatts(DEMO_HEAT_WATTS)
    /\ ev' = [op |-> "reset", demo_heat_watts |-> DEMO_HEAT_WATTS']
    /\ hist' = [hist EXCEPT !.reset = IF DEMO_HEAT_WATTS > 0 \/ hist.reset = "pos"
                                      THEN "pos" ELSE "zero"]
    /\ UNCHANGED <<DEMO_HEAT_DECAY_PER_SEC, LAST_DEMO_TS, now, inflight, inj, backs, cin, cout, mat>>

\* ------------------------------------------------------------- GET /system/living-machine/status
\* The request arrives and suspends at `await get_weather_forecast()`.
StatusStart(limit) ==
    /\ BagCardinality(inflight) < limit
    /\ inflight' = Add(inflight, AtWeather)
    /\ ev' = None
    /\ UNCHANGED <<store, now, inj, hist, backs, cin, cout, mat>>

\* get_weather_forecast raises (httpx error, raise_for_status): nothing catches it.
StatusWeatherRaises ==
    /\ BagIn(AtWeather, inflight)
    /\ inflight' = Remove(inflight, AtWeather)
    /\ ev' = [op |-> "status_raise", at |-> "weather"]
    /\ UNCHANGED <<store, now, inj, hist, backs, cin, cout, mat>>

\* The forecast arrives; the handler runs up to `await system_logs.insert_one(...)`:
\* get_server_thermal_state (cpu_percent sleeps, _apply_demo_decay, the read of
\* DEMO_HEAT_WATTS), the thermal model and the LivingMachineState. The request
\* `from` goes on to await the log write at `to`; the clock stays within `horizon`.
DeriveAt(horizon, from, to, cpu, clouds) ==
    LET t == now + CpuInterval
        w == DecayedWatts(DEMO_HEAT_WATTS, DEMO_HEAT_DECAY_PER_SEC, LAST_DEMO_TS, t)
    IN  /\ BagIn(from, inflight)
        /\ t <= horizon
        /\ now' = t
        /\ LAST_DEMO_TS' = t
        /\ DEMO_HEAT_WATTS' = w
        /\ inflight' = Add(Remove(inflight, from),
                           Suspended(to, DeriveState(cpu, w, clouds), ""))
        /\ ev' = [op |-> "read", demo_heat_watts |-> w, before |-> DEMO_HEAT_WATTS,
                  dt |-> t - LAST_DEMO_TS, prev |-> hist.prev]
        /\ hist' = [hist EXCEPT !.prev = w]
        /\ UNCHANGED <<DEMO_HEAT_DECAY_PER_SEC, inj, backs, cin, cout, mat>>

StatusDerive(cpu, clouds) == DeriveAt(MaxTime, AtWeather, "log", cpu, clouds)

\* insert_one succeeds and the handler returns; interpret_state runs here, after the
\* log write, and the handler never calls generate_content.
StatusReturn(req) ==
    /\ BagIn(req, inflight) /\ req.at = "log"
    /\ inflight' = Remove(inflight, req)
    /\ ev' = [op |-> "status_return", living_machine_state |-> req.state,
              interpretation |-> InterpretState(req.state), advisory_calls |-> 0]
    /\ UNCHANGED <<store, now, inj, hist, backs, cin, cout, mat>>

\* insert_one raises: nothing catches it.
StatusLogRaises(req) ==
    /\ BagIn(req, inflight) /\ req.at = "log"
    /\ inflight' = Remove(inflight, req)
    /\ ev' = [op |-> "status_raise", at |-> "log"]
    /\ UNCHANGED <<store, now, inj, hist, backs, cin, cout, mat>>

\* ------------------------------------------------------------- POST /system/adapt
AdaptInputs ==
    {[foundation_temp_celsius |-> c * TempUnit,
      thermal_capacity_used |-> 50 * CapUnit,
      is_saturated |-> sat,
      server_heat_output_watts |-> 0,
      smart_glass_opacity |-> 0,
      solar_gain_watts |-> 0,
      has_outside_temp |-> FALSE] : c \in AdaptTemps, sat \in BOOLEAN}

\* The state run_adaptation returns: the posted one, with the fields it assigns.
AdaptedState(state) ==
    IF state.foundation_temp_celsius >= SatTemp
    THEN [state EXCEPT !.is_saturated = TRUE, !.smart_glass_opacity = 100]
    ELSE [state EXCEPT !.smart_glass_opacity = SmartGlassOpacity(state.foundation_temp_celsius)]

\* (mutant) the action text with nothing appended in the except branch
AdaptAction_Unmarked(state, advisoryOk) ==
    IF state.foundation_temp_celsius >= SatTemp
    THEN "CRITICAL_AI_RECOMMENDATION"
    ELSE "NOMINAL"

\* The action text: which of its three shapes.
AdaptAction(state, advisoryOk) ==
    IF state.foundation_temp_celsius >= SatTemp
    THEN IF advisoryOk THEN "CRITICAL_AI_RECOMMENDATION" ELSE "CRITICAL_AI_UNAVAILABLE"
    ELSE "NOMINAL"

\* The request arrives and runs up to `await system_logs.insert_one(...)`; the
\* generate_content call is synchronous, and its exception is caught.
AdaptStart(limit, state, advisoryOk) ==
    /\ BagCardinality(inflight) < limit
    /\ inflight' = Add(inflight, Suspended("adapt_log", AdaptedState(state),
                                           AdaptAction(state, advisoryOk)))
    /\ ev' = [op |-> "adapt_begin",
              advisory |-> IF state.foundation_temp_celsius < SatTemp THEN "not_called"
                           ELSE IF advisoryOk THEN "answered" ELSE "raised",
              action |-> AdaptAction(state, advisoryOk)]
    /\ UNCHANGED <<store, now, inj, hist, backs, cin, cout, mat>>

\* insert_one succeeds and the handler returns; generate_content was called once in
\* the branch foundation_temp_celsius >= 24.0 and not at all in the other.
AdaptReturn(req) ==
    /\ BagIn(req, inflight) /\ req.at = "adapt_log"
    /\ inflight' = Remove(inflight, req)
    /\ ev' = [op |-> "adapt_return", state |-> req.state, action |-> req.action,
              advisory_calls |-> IF req.action = "NOMINAL" THEN 0 ELSE 1]
    /\ UNCHANGED <<store, now, inj, hist, backs, cin, cout, mat>>

\* insert_one raises: nothing catches it.
AdaptLogRaises(req) ==
    /\ BagIn(req, inflight) /\ req.at = "adapt_log"
    /\ inflight' = Remove(inflight, req)
    /\ ev' = [op |-> "adapt_raise", at |-> "log"]
    /\ UNCHANGED <<store, now, inj, hist, backs, cin, cout, mat>>

\* ------------------------------------------------------------- GET /plan/72h
\* predictive_plan calls get_living_machine_status() as a coroutine, so a plan
\* request first goes through the status handler's steps.
AtPlanWeather == Suspended("plan_weather", NoState, "")

PlanStart(limit) ==
    /\ BagCardinality(inflight) < limit
    /\ inflight' = Add(inflight, AtPlanWeather)
    /\ ev' = None
    /\ UNCHANGED <<store, now, inj, hist, backs, cin, cout, mat>>

\* get_weather_forecast raises inside get_living_machine_status.
PlanWeatherRaises ==
    /\ BagIn(AtPlanWeather, inflight)
    /\ inflight' = Remove(inflight, AtPlanWeather)
    /\ ev' = [op |-> "plan_raise", at |-> "weather"]
    /\ UNCHANGED <<store, now, inj, hist, backs, cin, cout, mat>>

PlanDerive(cpu, clouds) == DeriveAt(MaxTime, AtPlanWeather, "plan_log", cpu, clouds)

\* insert_one raises inside get_living_machine_status.
PlanLogRaises(req) ==
    /\ BagIn(req, inflight) /\ req.at = "plan_log"
    /\ inflight' = Remove(inflight, req)
    /\ ev' = [op |-> "plan_raise", at |-> "log"]
    /\ UNCHANGED <<store, now, inj, hist, backs, cin, cout, mat>>

\* get_living_machine_status returns; predictive_plan awaits get_weather_forecast.
PlanStatusReturns(req) ==
    /\ BagIn(req, inflight) /\ req.at = "plan_log"
    /\ inflight' = Add(Remove(inflight, req), Suspended("plan_forecast", req.state, ""))
    /\ ev' = None
    /\ UNCHANGED <<store, now, inj, hist, backs, cin, cout, mat>>

\* predictive_plan's own get_weather_forecast raises.
PlanForecastRaises(req) ==
    /\ BagIn(req, inflight) /\ req.at = "plan_forecast"
    /\ inflight' = Remove(inflight, req)
    /\ ev' = [op |-> "plan_raise", at |-> "forecast"]
    /\ UNCHANGED <<store, now, inj, hist, backs, cin, cout, mat>>

\* plan_source = "gemini" in the try branch, "fallback" in the except branch
PlanSource(advisoryOk) == IF advisoryOk THEN "gemini" ELSE "fallback"

\* The forecast arrives; generate_content is called synchronously inside try/except
\* and the handler returns.
PlanReturn(req, advisoryOk) ==
    /\ BagIn(req, inflight) /\ req.at = "plan_forecast"
    /\ inflight' = Remove(inflight, req)
    /\ ev' = [op |-> "plan_return", plan_source |-> PlanSource(advisoryOk),
              current_state |-> req.state,
              advisory |-> IF advisoryOk THEN "answered" ELSE "raised"]
    /\ UNCHANGED <<store, now, inj, hist, backs, cin, cout, mat>>

\* ------------------------------------------------------------- POST /materials/upsert
\* What an awaited write may do: return, raise before it is applied, or raise after
\* it is applied (the acknowledgement is lost).
WriteOutcomes == {"ok", "raised", "applied_raised"}

MatOther == <<store, now, inflight, inj, hist, backs, cin, cout>>

\* The request arrives: get_embedding raises before material_id exists ("material_id"
\* is not in locals(), nothing to clean up, HTTP 500), or the handler draws its id
\* and reaches `await materials_collection.insert_one(material_doc)`.
UpsertStart(i, embedOk) ==
    /\ upserts[i] = "idle"
    /\ \A j \in MatIds : j < i => upserts[j] # "idle"
    /\ upserts' = [upserts EXCEPT ![i] = IF embedOk THEN "insert_one" ELSE "failed"]
    /\ ev' = IF embedOk THEN None ELSE [op |-> "upsert_return", id |-> i, status |-> 500]
    /\ UNCHANGED <<MatOther, materials_collection, vectors, searches>>

\* insert_one of the document with vector_stored False.
UpsertInsert(i, outcome) ==
    /\ upserts[i] = "insert_one"
    /\ materials_collection' =
          IF outcome = "raised" THEN materials_collection
          ELSE [materials_collection EXCEPT ![i] = "false"]
    /\ upserts' = [upserts EXCEPT ![i] = IF outcome = "ok" THEN "UpsertVector"
                                         ELSE "delete_one"]
    /\ ev' = None
    /\ UNCHANGED <<MatOther, vectors, searches>>

\* await stub.UpsertVector(upsert_req)
UpsertVector(i, ok) ==
    /\ upserts[i] = "UpsertVector"
    /\ vectors' = IF ok THEN vectors \cup {i} ELSE vectors
    /\ upserts' = [upserts EXCEPT ![i] = IF ok THEN "close" ELSE "delete_one"]
    /\ ev' = None
    /\ UNCHANGED <<MatOther, materials_collection, searches>>

\* await channel.close()
UpsertClose(i, ok) ==
    /\ upserts[i] = "close"
    /\ upserts' = [upserts EXCEPT ![i] = IF ok THEN "update_one" ELSE "delete_one"]
    /\ ev' = None
    /\ UNCHANGED <<MatOther, materials_collection, vectors, searches>>

\* update_one({"_id": material_id}, {"$set": {"vector_stored": True}})
StoredDocs(docs, i) == IF docs[i] = "absent" THEN docs ELSE [docs EXCEPT ![i] = "true"]

\* update_one, and on its return the handler's `return {"status": "success", ...}`.
UpsertUpdate(i, outcome) ==
    /\ upserts[i] = "update_one"
    /\ materials_collection' =
          IF outcome = "raised" THEN materials_collection
          ELSE StoredDocs(materials_collection, i)
    /\ upserts' = [upserts EXCEPT ![i] = IF outcome = "ok" THEN "success" ELSE "delete_one"]
    /\ ev' = IF outcome = "ok" THEN [op |-> "upsert_return", id |-> i, status |-> 200]
             ELSE None
    /\ UNCHANGED <<MatOther, vectors, searches>>

\* (mutant) a cleanup that deletes nothing
CleanedDocs_Keeps(docs, i) == docs

\* delete_one({"_id": material_id})
CleanedDocs(docs, i) == [docs EXCEPT ![i] = "absent"]

\* The except branch: delete_one, then HTTPException(500). When delete_one itself
\* raises, its exception leaves the handler and the document stays.
UpsertCleanup(i, ok) ==
    /\ upserts[i] = "delete_one"
    /\ materials_collection' =
          IF ok THEN CleanedDocs(materials_collection, i) ELSE materials_collection
    /\ upserts' = [upserts EXCEPT ![i] = IF ok THEN "failed" ELSE "delete_failed"]
    /\ ev' = [op |-> "upsert_return", id |-> i, status |-> 500]
    /\ UNCHANGED <<MatOther, vectors, searches>>

\* ------------------------------------------------------------- POST /materials/search
MaxSearches == 2
TopKs == {1, 3}

\* The request arrives: get_embedding(request.query) raises (HTTP 500), or the
\* handler reaches `await materials_collection.find(...).to_list(length=1000)`.
SearchStart(embedOk) ==
    /\ searches < MaxSearches
    /\ searches' = IF embedOk THEN searches + 1 ELSE searches
    /\ ev' = IF embedOk THEN None ELSE [op |-> "search_return", status |-> 500]
    /\ UNCHANGED <<MatOther, materials_collection, vectors, upserts>>

\* (mutant) find() with no filter
FindStored_Unfiltered(docs) == {i \in MatIds : docs[i] # "absent"}

\* find({"vector_stored": True})
FindStored(docs) == {i \in MatIds : docs[i] = "true"}

\* The first top_k of the scored documents, in whichever order the scores put them.
TopMatches(found, top_k) ==
    {m \in SUBSET found : Cardinality(m) = Min(top_k, Cardinality(found))}

\* find returns; the scoring is synchronous (a get_embedding per document, which may
\* raise: HTTP 500) and the handler returns the top_k matches.
SearchReturn(top_k, embedOk) ==
    /\ searches > 0
    /\ searches' = searches - 1
    /\ \E matches \in TopMatches(FindStored(materials_collection), top_k) :
          ev' = IF embedOk
                THEN [op |-> "search_return", status |-> 200,
                      matches |-> {[id |-> i, vector_stored |-> materials_collection[i]] :
                                       i \in matches}]
                ELSE [op |-> "search_return", status |-> 500]
    /\ UNCHANGED <<MatOther, materials_collection, vectors, upserts>>

\* ------------------------------------------------------------- interpret_state alone
\* Snapshots of every shape, also ones no derivation produces.
ClassifierInputs ==
    {[foundation_temp_celsius |-> c * TempUnit,
      thermal_capacity_used |-> cap,
      is_saturated |-> sat,
      server_heat_output_watts |-> heat,
      smart_glass_opacity |-> 0,
      solar_gain_watts |-> 0,
      has_outside_temp |-> FALSE] :
        c \in {20, 24}, sat \in BOOLEAN,
        cap \in {0, 75 * CapUnit, 75 * CapUnit + 1, 100 * CapUnit},
        heat \in {0, 30 * WattUnit - 1, 30 * WattUnit, 80 * WattUnit}}

InitClassify ==
    /\ DEMO_HEAT_WATTS = 0
    /\ DEMO_HEAT_DECAY_PER_SEC = InitialRate
    /\ LAST_DEMO_TS = 0
    /\ now = 0
    /\ inflight = EmptyBag
    /\ ev = None
    /\ inj = None
    /\ hist = NoHist
    /\ backs = 0
    /\ NoMaterials
    /\ cin \in ClassifierInputs
    /\ cout = "none"

Classify ==
    /\ cout = "none"
    /\ cout' = InterpretState(cin)
    /\ UNCHANGED <<store, now, inflight, ev, inj, hist, backs, cin, mat>>

NextInput ==
    /\ cout # "none"
    /\ cin' \in ClassifierInputs
    /\ cout' = "none"
    /\ UNCHANGED <<store, now, inflight, ev, inj, hist, backs, mat>>

SpecClassify == InitClassify /\ [][Classify \/ NextInput]_vars

\* ------------------------------------------------------------- pure functions alone
\* The program at rest: what the pure-function specifications leave untouched.
rest == <<store, now, inflight, ev, inj, hist, backs, mat>>
AtRest ==
    /\ DEMO_HEAT_WATTS = 0
    /\ DEMO_HEAT_DECAY_PER_SEC = InitialRate
    /\ LAST_DEMO_TS = 0
    /\ now = 0
    /\ inflight = EmptyBag
    /\ ev = None
    /\ inj = None
    /\ hist = NoHist
    /\ backs = 0
    /\ NoMaterials

\* _smart_glass_opacity on two temperatures lo <= hi, from below 22 degC to above
\* 24 degC in steps of 1/30 degC.
OpacityTemps == {RampTemp - 150 + 75 * k : k \in 0 .. 64}
OpacityInputs ==
    {[op |-> "temps", lo |-> p[1], hi |-> p[2]] :
        p \in {q \in OpacityTemps \X OpacityTemps : q[1] <= q[2]}}

InitOpacity == AtRest /\ cin \in OpacityInputs /\ cout = None

ApplyOpacity ==
    /\ cout = None
    /\ cout' = [op |-> "opacity", lo |-> SmartGlassOpacity(cin.lo),
                hi |-> SmartGlassOpacity(cin.hi)]
    /\ UNCHANGED <<rest, cin>>

NextOpacityInput ==
    /\ cout # None
    /\ cin' \in OpacityInputs
    /\ cout' = None
    /\ UNCHANGED rest

SpecOpacity == InitOpacity /\ [][ApplyOpacity \/ NextOpacityInput]_vars

\* The derivation of the status handler on two signal readings a and b: CPU percent,
\* injected watts left in the store after decay, cloud cover (-1: no forecast).
DeriveCpus == {0, 20, 60, 100}
DeriveWatts == {0, 4 * WattUnit, 30 * WattUnit, 68 * WattUnit, 69 * WattUnit,
                80 * WattUnit}
DeriveSignals == [cpu : DeriveCpus, w : DeriveWatts, clouds : {-1, 40}]
DeriveInputs == [op : {"signals"}, a : DeriveSignals, b : DeriveSignals]

Derived(sig) ==
    LET state == DeriveState(sig.cpu, sig.w, sig.clouds)
    IN  [state |-> state, interpretation |-> InterpretState(state)]

InitDerive == AtRest /\ cin \in DeriveInputs /\ cout = None

ApplyDerive ==
    /\ cout = None
    /\ cout' = [op |-> "derived", a |-> Derived(cin.a), b |-> Derived(cin.b)]
    /\ UNCHANGED <<rest, cin>>

NextDeriveInput ==
    /\ cout # None
    /\ cin' \in DeriveInputs
    /\ cout' = None
    /\ UNCHANGED rest

SpecDerive == InitDerive /\ [][ApplyDerive \/ NextDeriveInput]_vars

\* ------------------------------------------------------------- specification
\* What the decay store's handlers do once a request is in.
Handlers ==
    \/ \E watts \in InjectWatts, seconds \in InjectSeconds : demo_heat(watts, seconds)
    \/ demo_reset
    \/ StatusWeatherRaises
    \/ \E sig \in Signals : StatusDerive(sig.cpu, sig.clouds)
    \/ \E req \in BagToSet(inflight) : StatusReturn(req)
    \/ \E req \in BagToSet(inflight) : StatusLogRaises(req)

AdaptHandlers ==
    \/ \E req \in BagToSet(inflight) : AdaptReturn(req)
    \/ \E req \in BagToSet(inflight) : AdaptLogRaises(req)

\* Up to NReq requests in flight at once, under a clock that only advances.
Next == Tick \/ StatusStart(NReq) \/ Handlers

Spec == Init /\ [][Next]_vars

\* One request at a time, under a wall clock that may also be set back.
NextClock == Tick \/ ClockBack \/ StatusStart(1) \/ Handlers

SpecClock == Init /\ [][NextClock]_vars

\* The evaluations: status and adapt requests, up to NReq in flight at once.
NextEval ==
    \/ Next
    \/ \E state \in AdaptInputs, advisoryOk \in BOOLEAN : AdaptStart(NReq, state, advisoryOk)
    \/ AdaptHandlers

SpecEval == Init /\ [][NextEval]_vars

PlanHandlers ==
    \/ PlanWeatherRaises
    \/ \E sig \in Signals : PlanDerive(sig.cpu, sig.clouds)
    \/ \E req \in BagToSet(inflight) : PlanLogRaises(req)
    \/ \E req \in BagToSet(inflight) : PlanStatusReturns(req)
    \/ \E req \in BagToSet(inflight) : PlanForecastRaises(req)
    \/ \E req \in BagToSet(inflight), advisoryOk \in BOOLEAN : PlanReturn(req, advisoryOk)

\* The handlers that call the advisory, adapt and plan, one request at a time (the
\* generate_content call is synchronous: nothing runs between the call and its
\* except branch), with injections changing the store between their steps.
NextAdvisory ==
    \/ Tick
    \/ \E watts \in InjectWatts, seconds \in InjectSeconds : demo_heat(watts, seconds)
    \/ \E state \in AdaptInputs, advisoryOk \in BOOLEAN : AdaptStart(1, state, advisoryOk)
    \/ AdaptHandlers
    \/ PlanStart(1)
    \/ PlanHandlers

SpecAdvisory == Init /\ [][NextAdvisory]_vars

\* The decay store over a whole minimum decay window: one status request at a time,
\* the clock advancing by the second a read takes or by most of a window at once,
\* and set back at most MaxBack times.
SpikeHorizon == MinWindow
SpikeWaits == {MinWindow - 1}

StatusDeriveWithin(cpu, clouds) == DeriveAt(SpikeHorizon, AtWeather, "log", cpu, clouds)

NextSpike ==
    \/ \E d \in SpikeWaits : Wait(SpikeHorizon, d)
    \/ ClockBack
    \/ StatusStart(1)
    \/ \E watts \in InjectWatts, seconds \in InjectSeconds : demo_heat(watts, seconds)
    \/ demo_reset
    \/ StatusWeatherRaises
    \/ \E sig \in Signals : StatusDeriveWithin(sig.cpu, sig.clouds)
    \/ \E req \in BagToSet(inflight) : StatusReturn(req)
    \/ \E req \in BagToSet(inflight) : StatusLogRaises(req)

SpecSpike == Init /\ [][NextSpike]_vars

\* The materials endpoints: NMat upsert calls and up to MaxSearches searches, their
\* steps interleaved in every order.
NextMaterials ==
    \/ \E i \in MatIds, embedOk \in BOOLEAN : UpsertStart(i, embedOk)
    \/ \E i \in MatIds, outcome \in WriteOutcomes : UpsertInsert(i, outcome)
    \/ \E i \in MatIds, ok \in BOOLEAN : UpsertVector(i, ok)
    \/ \E i \in MatIds, ok \in BOOLEAN : UpsertClose(i, ok)
    \/ \E i \in MatIds, outcome \in WriteOutcomes : UpsertUpdate(i, outcome)
    \/ \E i \in MatIds, ok \in BOOLEAN : UpsertCleanup(i, ok)
    \/ \E embedOk \in BOOLEAN : SearchStart(embedOk)
    \/ \E top_k \in TopKs, embedOk \in BOOLEAN : SearchReturn(top_k, embedOk)

SpecMaterials == Init /\ [][NextMaterials]_vars

\* ============================================================= claims
\* What the documented inject formula gives for a request (watts, seconds), stated
\* without the model's operators: the value max(0, watts) and, as a predicate on a
\* rate, rate = max(0.5, value / max(10, seconds)).
ClaimedWatts(watts) == IF watts > 0 THEN watts * WattUnit ELSE 0
ClaimedWindow(seconds) == IF seconds > 10 THEN seconds ELSE 10
IsClaimedRate(rate, watts, seconds) ==
    \/ 2 * rate = WattUnit /\ 2 * ClaimedWatts(watts) <= WattUnit * ClaimedWindow(seconds)
    \/ rate * ClaimedWindow(seconds) = ClaimedWatts(watts) /\ 2 * rate >= WattUnit

\* The value the claims give a read d seconds after the last inject: max(0, w - rate * d).
ClaimedValue ==
    LET d == now - inj.t
        v == ClaimedWatts(inj.watts) - DEMO_HEAT_DECAY_PER_SEC * d
    IN  IF v > 0 THEN v ELSE 0

LogSuspended == {req \in BagToSet(inflight) : req.at = "log"}

\* C1: a read d seconds after inject(w, s), with no inject or reset in between,
\* returns max(0, max(0, w) - rate * d), however long before the inject the store
\* was last read.
C1_ReadAfterInject ==
    (ev.op = "read" /\ inj.op = "inject" /\ hist.reset = "no")
        => ev.demo_heat_watts = ClaimedValue

\* C2: the stored injected heat is never negative, successive reads with no inject
\* between them never increase, and the stored value increases only in an inject step.
C2_DecayMonotone ==
    /\ [](DEMO_HEAT_WATTS >= 0)
    /\ []((ev.op = "read" /\ ev.prev >= 0) => ev.demo_heat_watts <= ev.prev)
    /\ [][DEMO_HEAT_WATTS' > DEMO_HEAT_WATTS => ev'.op = "inject"]_vars

C2_Witness ==
    /\ ev.op = "read"
    /\ ev.prev > ev.demo_heat_watts
    /\ ev.demo_heat_watts > 0
    /\ hist.reset = "no"

\* C3: for every requested watts and seconds (negative and zero included) inject
\* leaves watts = max(0, requested) and rate = max(0.5, watts / max(10, seconds)),
\* so the rate is at least 0.5, and it returns the pair it stored.
C3_InjectionFloor ==
    ev.op = "inject" =>
        /\ DEMO_HEAT_WATTS = ClaimedWatts(ev.watts)
        /\ IsClaimedRate(DEMO_HEAT_DECAY_PER_SEC, ev.watts, ev.seconds)
        /\ 2 * DEMO_HEAT_DECAY_PER_SEC >= WattUnit
        /\ ev.demo_heat_watts = DEMO_HEAT_WATTS
        /\ ev.decay_watts_per_sec = DEMO_HEAT_DECAY_PER_SEC

C3_Witness ==
    /\ ev.op = "inject"
    /\ ev.watts > 0
    /\ ev.seconds < 0
    /\ DEMO_HEAT_DECAY_PER_SEC * 10 = DEMO_HEAT_WATTS

\* C4: after a reset, every read returns exactly 0 until the next inject.
C4_ResetReadsZero ==
    (ev.op = "read" /\ hist.reset # "no") => ev.demo_heat_watts = 0

C4_Witness ==
    /\ ev.op = "read"
    /\ hist.reset = "pos"
    /\ ev.dt > 0
    /\ DEMO_HEAT_DECAY_PER_SEC > RateFloor

\* C5: a reset step leaves the decay rate as it was.
C5_ResetKeepsRate ==
    [][ev'.op = "reset" => DEMO_HEAT_DECAY_PER_SEC' = DEMO_HEAT_DECAY_PER_SEC]_vars

C5_Witness ==
    /\ ev.op = "reset"
    /\ hist.reset = "pos"
    /\ DEMO_HEAT_DECAY_PER_SEC # InitialRate

\* C6: with reads of concurrent status requests applied in between, the value a read
\* observes d seconds after the last inject is still max(0, w - rate * d).
C6_NoDoubleDecay ==
    (/\ ev.op = "read"
     /\ inj.op = "inject"
     /\ hist.reset = "no"
     /\ ev.prev >= 0
     /\ BagCardinality(inflight) >= 2
     /\ \A req \in BagToSet(inflight) : req.at = "log")
        => ev.demo_heat_watts = ClaimedValue

\* C7: once an inject has completed, under any interleaving with suspended requests,
\* the stored rate is the one the most recently completed inject (W, S) gives, and the
\* stored watts is that inject's max(0, W), lowered only by decay or reset since.
C7_LastInjectWins ==
    inj.op = "inject" =>
        /\ IsClaimedRate(DEMO_HEAT_DECAY_PER_SEC, inj.watts, inj.seconds)
        /\ DEMO_HEAT_WATTS <= ClaimedWatts(inj.watts)
        /\ (hist.reset = "no" /\ hist.prev < 0) => DEMO_HEAT_WATTS = ClaimedWatts(inj.watts)

C7_Witness ==
    /\ ev.op = "inject"
    /\ ev.watts = 4
    /\ BagCardinality(inflight) = 2
    /\ \E req \in LogSuspended : req.state.server_heat_output_watts > 60 * WattUnit

\* C8: a decay applied with now earlier than last_update leaves watts unchanged and
\* sets last_update to now; the read completes.
C8_ClockAnomaly ==
    (ev.op = "read" /\ ev.dt < 0)
        => /\ DEMO_HEAT_WATTS = ev.before
           /\ ev.demo_heat_watts = ev.before
           /\ LAST_DEMO_TS = now

C8_Witness ==
    /\ ev.op = "read"
    /\ ev.dt < 0
    /\ ev.before > 0

\* C9: every snapshot an evaluation returns, status or adapt, has
\* is_saturated = true exactly when foundation_temp_c >= 24.0.
SaturatedIffHot(state) == state.is_saturated <=> state.foundation_temp_celsius >= SatTemp
C9_SaturatedIffHot ==
    /\ ev.op = "status_return" => SaturatedIffHot(ev.living_machine_state)
    /\ ev.op = "adapt_return" => SaturatedIffHot(ev.state)

\* C10: classification is an ordered list, first match wins: saturated gives CRITICAL
\* whatever the other fields; else capacity > 75 gives WARNING; else heat < 30 W gives
\* NOMINAL_PASSIVE; else ACTIVE.
C10_FirstMatchWins ==
    cout # "none" =>
        /\ cout \in {"CRITICAL", "WARNING", "NOMINAL_PASSIVE", "ACTIVE"}
        /\ cin.is_saturated => cout = "CRITICAL"
        /\ (~cin.is_saturated /\ cin.thermal_capacity_used > 75 * CapUnit)
              => cout = "WARNING"
        /\ (~cin.is_saturated /\ cin.thermal_capacity_used <= 75 * CapUnit
              /\ cin.server_heat_output_watts < 30 * WattUnit)
              => cout = "NOMINAL_PASSIVE"
        /\ (~cin.is_saturated /\ cin.thermal_capacity_used <= 75 * CapUnit
              /\ cin.server_heat_output_watts >= 30 * WattUnit)
              => cout = "ACTIVE"

C10_Witness ==
    /\ cout = "CRITICAL"
    /\ cin.is_saturated
    /\ cin.server_heat_output_watts < 30 * WattUnit
    /\ cin.thermal_capacity_used > 75 * CapUnit

\* round(n / d) for n >= 0, d > 0, halves to the even neighbour (Python's round).
ClaimedRound(n, d) ==
    LET q == n \div d
        r == n % d
    IN  IF 2 * r < d THEN q
        ELSE IF 2 * r > d THEN q + 1
        ELSE IF q % 2 = 0 THEN q ELSE q + 1

\* C11 as stated: opacity is 100 from 24 degC, 0 up to 22 degC, and
\* round((temp - 22) / (24 - 22) * 100) in between.
C11_OpacityRounds ==
    cout.op = "opacity" =>
        cout.lo = IF cin.lo >= 24 * TempUnit THEN 100
                  ELSE IF cin.lo <= 22 * TempUnit THEN 0
                  ELSE ClaimedRound((cin.lo - 22 * TempUnit) * 100, 2 * TempUnit)

\* C11 as amended: in between, opacity is (temp - 22) / (24 - 22) * 100 truncated to
\* an integer; 22.0 gives 0, 23.0 gives 50, 24.0 gives 100; the result is an integer
\* in [0, 100] and is non-decreasing in temp.
IsTruncatedRamp(o, temp) ==
    /\ o * 2 * TempUnit <= (temp - 22 * TempUnit) * 100
    /\ (temp - 22 * TempUnit) * 100 < (o + 1) * 2 * TempUnit
C11_OpacityTruncates ==
    cout.op = "opacity" =>
        /\ cin.lo >= 24 * TempUnit => cout.lo = 100
        /\ cin.lo <= 22 * TempUnit => cout.lo = 0
        /\ (22 * TempUnit < cin.lo /\ cin.lo < 24 * TempUnit)
              => IsTruncatedRamp(cout.lo, cin.lo)
        /\ cin.lo = 23 * TempUnit => cout.lo = 50
        /\ cout.lo \in 0 .. 100
        /\ cout.lo <= cout.hi

C11_Witness ==
    /\ cout.op = "opacity"
    /\ 22 * TempUnit < cin.lo
    /\ cin.hi < 24 * TempUnit
    /\ ((cin.lo - 22 * TempUnit) * 100) % (2 * TempUnit) # 0
    /\ cout.lo < cout.hi

\* C12: for every load and injected watts the derived capacity lies in [0, 100], is
\* non-decreasing in the foundation temperature, and is exactly 100 whenever the
\* foundation temperature is above 24.0 degC.
C12_CapacityClamp ==
    cout.op = "derived" =>
        LET a == cout.a.state
            b == cout.b.state
        IN  /\ 0 <= a.thermal_capacity_used
            /\ a.thermal_capacity_used <= 100 * CapUnit
            /\ a.foundation_temp_celsius <= b.foundation_temp_celsius
                  => a.thermal_capacity_used <= b.thermal_capacity_used
            /\ a.foundation_temp_celsius > 24 * TempUnit
                  => a.thermal_capacity_used = 100 * CapUnit

C12_Witness ==
    /\ cout.op = "derived"
    /\ cout.a.state.foundation_temp_celsius > 24 * TempUnit
    /\ cout.b.state.foundation_temp_celsius > cout.a.state.foundation_temp_celsius
    /\ cout.b.state.thermal_capacity_used = 100 * CapUnit

\* C16: for every load and injected watts >= 0 the derived heat is load * 65 +
\* injected and the foundation temperature is 18.5 + 0.08 * heat, hence >= 18.5;
\* load 0 with nothing injected gives 18.5 degC, capacity 0, opacity 0, not
\* saturated, NOMINAL_PASSIVE; load 0 with 80 W injected gives 24.9 degC, saturated,
\* opacity 100, CRITICAL.
C16_ReferenceFormulas ==
    cout.op = "derived" =>
        LET sig == cin.a
            state == cout.a.state
            heat == state.server_heat_output_watts
            temp == state.foundation_temp_celsius
        IN  /\ 100 * heat = sig.cpu * 65 * WattUnit + 100 * sig.w
            /\ 2 * 100 * WattUnit * temp = 37 * 100 * WattUnit * TempUnit + 2 * 8 * heat * TempUnit
            /\ 2 * temp >= 37 * TempUnit
            /\ (sig.cpu = 0 /\ sig.w = 0)
                  => /\ 2 * temp = 37 * TempUnit
                     /\ state.thermal_capacity_used = 0
                     /\ state.smart_glass_opacity = 0
                     /\ ~state.is_saturated
                     /\ cout.a.interpretation = "NOMINAL_PASSIVE"
            /\ (sig.cpu = 0 /\ sig.w = 80 * WattUnit)
                  => /\ 10 * temp = 249 * TempUnit
                     /\ state.is_saturated
                     /\ state.smart_glass_opacity = 100
                     /\ cout.a.interpretation = "CRITICAL"

C16_Witness ==
    /\ cout.op = "derived"
    /\ cin.a.cpu = 0
    /\ cin.a.w = 80 * WattUnit
    /\ cin.b.cpu = 0
    /\ cin.b.w = 0
    /\ cout.a.interpretation = "CRITICAL"
    /\ cout.b.interpretation = "NOMINAL_PASSIVE"

\* C13: a log write that raises never fails an evaluation: no status or adapt
\* request ends by raising out of its insert_one.
C13_LogFailureHarmless ==
    ~(ev.op \in {"status_raise", "adapt_raise"} /\ ev.at = "log")

\* C15: a weather fetch that raises is degraded, not propagated: no status request
\* ends by raising out of get_weather_forecast.
C15_WeatherFailureDegrades ==
    ~(ev.op = "status_raise" /\ ev.at = "weather")

\* C17: every evaluation cycle that completes has called the advisory exactly once
\* if its snapshot is CRITICAL (saturated) and never otherwise.
C17_AdvisoryIffCritical ==
    /\ ev.op = "status_return"
          => ev.advisory_calls = IF ev.interpretation = "CRITICAL" THEN 1 ELSE 0
    /\ ev.op = "adapt_return"
          => ev.advisory_calls = IF ev.state.foundation_temp_celsius >= 24 * TempUnit
                                 THEN 1 ELSE 0

RaisedAdvisoryPending ==
    {req \in BagToSet(inflight) :
        /\ req.at = "adapt_log"
        /\ req.action = "CRITICAL_AI_UNAVAILABLE"
        /\ req.state.is_saturated
        /\ req.state.smart_glass_opacity = 100}

\* C14: an advisory that raises is not fatal. A critical adapt evaluation goes on
\* with the saturated state, opacity 100 and an action text that says the advisory
\* is unavailable, which it says in no other case, and returns them; the 72h plan
\* returns with plan_source "fallback" exactly when the advisory raised. No adapt
\* or plan request ends by raising out of the advisory call.
C14_AdvisoryFailureHarmless ==
    /\ ev.op = "adapt_begin"
          => /\ ev.advisory = "raised" <=> ev.action = "CRITICAL_AI_UNAVAILABLE"
             /\ ev.advisory = "raised" => RaisedAdvisoryPending # {}
    /\ ev.op = "adapt_return"
          => /\ ev.action = "CRITICAL_AI_UNAVAILABLE"
                   => ev.state.is_saturated /\ ev.state.smart_glass_opacity = 100
             /\ ev.action # "NOMINAL" => ev.state.foundation_temp_celsius >= 24 * TempUnit
    /\ ev.op = "plan_return"
          => /\ ev.advisory = "raised" <=> ev.plan_source = "fallback"
             /\ ev.advisory = "answered" <=> ev.plan_source = "gemini"
    /\ ev.op \in {"adapt_raise", "plan_raise"} => ev.at # "advisory"

C14_Witness ==
    /\ ev.op = "adapt_return"
    /\ ev.action = "CRITICAL_AI_UNAVAILABLE"
    /\ ev.state.smart_glass_opacity = 100

\* C14, the plan's side: a plan returned as the fallback after the advisory raised.
C14_PlanFallbackReached ==
    /\ ev.op = "plan_return"
    /\ ev.advisory = "raised"
    /\ ev.plan_source = "fallback"

\* C18: after an inject (w, s) at time t with no later inject, every read at or
\* after t + max(10, s) returns 0.
C18_SpikeLifetime ==
    (ev.op = "read" /\ inj.op = "inject" /\ now >= inj.t + ClaimedWindow(inj.seconds))
        => ev.demo_heat_watts = 0

\* C19: a document has vector_stored = true only if its vector upsert returned; a
\* search never returns a document whose vector_stored is false; and once an upsert
\* call has returned, success or HTTP 500 with its cleanup delete done, no document
\* with vector_stored = false remains for its id: the document exists if and only if
\* the call succeeded.
C19_UpsertAllOrNothing ==
    /\ \A i \in MatIds : materials_collection[i] = "true" => i \in vectors
    /\ (ev.op = "search_return" /\ ev.status = 200)
          => \A m \in ev.matches : m.vector_stored = "true"
    /\ \A i \in MatIds :
          /\ upserts[i] = "success" => materials_collection[i] = "true"
          /\ upserts[i] = "failed" => materials_collection[i] = "absent"

\* A failed call cleaned up after its vector upsert had returned, beside a
\* successful one that a search has just returned.
C19_Witness ==
    /\ upserts[1] = "failed"
    /\ 1 \in vectors
    /\ upserts[2] = "success"
    /\ ev.op = "search_return"
    /\ ev.status = 200
    /\ ev.matches # {}

====
